---- MODULE Spec2Model ----
(***************************************************************************)
(* Model of the two batch scripts of the repository:                      *)
(*   clean_sort_data.py         (the Cleaner)                              *)
(*   address_geocode_script.py  (the Annotator)                            *)
(* Text cells are sequences of code points so that the substring test and  *)
(* the lexical order of the sort are computed, not assumed.                *)
(***************************************************************************)
EXTENDS Integers, Sequences, FiniteSets, TLC

VARIABLES excel_file, pc, df, cleaned_df, output_xlsx, log,
          file_path, apc, adf, index, suggestions, unprocessed_rows,
          handled, http_log, slept,
          processed_df, processed_xlsx, unprocessed_df, unprocessed_xlsx

cvars == <<excel_file, pc, df, cleaned_df, output_xlsx>>
avars == <<file_path, apc, adf, index, suggestions, unprocessed_rows,
           handled, http_log, slept,
           processed_df, processed_xlsx, unprocessed_df, unprocessed_xlsx>>
vars == <<cvars, avars, log>>

----------------------------------------------------------------------------
(* Bounds *)

MaxRows == 3
MaxRowsNoRegion == 1
MaxAnnotatorRows == 3

----------------------------------------------------------------------------
(* Text: a str is a sequence of code points; a blank cell is the float NaN *)

NaN == << -1 >>

s_Unknown == <<85, 110, 107, 110, 111, 119, 110>>
s_Total == <<84, 111, 116, 97, 108>>
s_total == <<116, 111, 116, 97, 108>>
s_GrandTotal == <<71, 114, 97, 110, 100, 32>> \o s_Total
s_nan == <<110, 97, 110>>
s_A == <<65>>
s_B == <<66>>
s_N == <<78>>
s_X == <<88>>
s_Z == <<90>>
s_a == <<97>>
s_1 == <<49>>
s_2 == <<50>>
s_CommaSpace == <<44, 32>>

\* str(x) as applied by row.astype(str) and by f-string formatting
Str(x) == IF x = NaN THEN s_nan ELSE x

\* Series.str.contains(pat) for a pattern without regex metacharacters
Contains(s, pat) ==
    \E i \in 0..(Len(s) - Len(pat)) : SubSeq(s, i + 1, i + Len(pat)) = pat

\* Python's str.__lt__: lexicographic on code points, a proper prefix is less
RECURSIVE StrLess(_, _)
StrLess(a, b) ==
    IF b = <<>> THEN FALSE
    ELSE IF a = <<>> THEN TRUE
    ELSE IF Head(a) # Head(b) THEN Head(a) < Head(b)
    ELSE StrLess(Tail(a), Tail(b))

----------------------------------------------------------------------------
(* Tables: a column set and an ordered sequence of rows (column -> cell) *)

SourceColumns == {"Education Institute", "Country Name", "Region",
                  "Field of Study", "Students"}

Row(inst, country, region, field, students) ==
    [c \in SourceColumns |->
        CASE c = "Education Institute" -> inst
          [] c = "Country Name" -> country
          [] c = "Region" -> region
          [] c = "Field of Study" -> field
          [] OTHER -> students]

InputRows ==
    { Row(i, c, s_N, s_X, n) :
        i \in {s_Z, s_a}, c \in {s_A, NaN, s_Unknown}, n \in {s_1, s_2} }
    \cup { Row(s_Z, s_A, s_Total, s_X, s_1),
           Row(s_a, s_B, s_N, s_X, s_GrandTotal),
           Row(s_a, s_A, s_N, s_total, s_1),
           Row(s_Z, s_B, NaN, NaN, s_2) }

Restrict(r, cols) == [c \in cols |-> r[c]]

SeqsUpTo(S, n) == UNION { [1..k -> S] : k \in 0..n }

InputTables ==
    { [columns |-> SourceColumns, rows |-> rs] : rs \in SeqsUpTo(InputRows, MaxRows) }
    \cup
    { [columns |-> SourceColumns \ {"Region"},
       rows |-> [i \in DOMAIN rs |-> Restrict(rs[i], SourceColumns \ {"Region"})]] :
         rs \in SeqsUpTo(InputRows, MaxRowsNoRegion) }

NoTable == [columns |-> {}, rows |-> <<>>]

\* A spreadsheet file on disk: <<>> when not written, <<table>> when written
NoFile == <<>>

Info(m) == <<"INFO", m>>
Error(m) == <<"ERROR", m>>

----------------------------------------------------------------------------
(* Cleaner: clean_sort_data.py *)

\* df.drop_duplicates(): keep the first of each group of equal rows
DropDuplicates(rows) ==
    LET F[i \in 0..Len(rows)] ==
            IF i = 0 THEN <<>>
            ELSE IF \E j \in 1..(i - 1) : rows[j] = rows[i]
                 THEN F[i - 1]
                 ELSE Append(F[i - 1], rows[i])
    IN F[Len(rows)]

\* fault: a cell must equal 'Total' instead of containing it
HasTotal_ExactMatch(r) == \E c \in DOMAIN r : Str(r[c]) = s_Total

\* row.astype(str).str.contains('Total').any()
HasTotal(r) == \E c \in DOMAIN r : Contains(Str(r[c]), s_Total)

\* df[~df.apply(lambda row: ..., axis=1)]
RemoveTotals(rows) ==
    LET Keep(r) == ~HasTotal(r) IN SelectSeq(rows, Keep)

\* fault: blanks turned into the text 'nan' (astype(str) in place of fillna)
FillNa_AsStr(rows) ==
    [i \in DOMAIN rows |-> [c \in DOMAIN rows[i] |-> Str(rows[i][c])]]

\* df.fillna('Unknown')
FillNa(rows) ==
    [i \in DOMAIN rows |->
        [c \in DOMAIN rows[i] |-> IF rows[i][c] = NaN THEN s_Unknown ELSE rows[i][c]]]

RequiredColumns == {"Country Name", "Region", "Education Institute", "Field of Study"}

DerivedColumns == {"continent", "country", "region", "state",
                   "education institution", "field of study"}

\* the six assignments df['continent'] = ... df['field of study'] = ...
CreateColumns(rows) ==
    [i \in DOMAIN rows |->
        [c \in DOMAIN rows[i] \cup DerivedColumns |->
            CASE c = "continent" -> s_Unknown
              [] c = "country" -> rows[i]["Country Name"]
              [] c = "region" -> rows[i]["Region"]
              [] c = "state" -> s_Unknown
              [] c = "education institution" -> rows[i]["Education Institute"]
              [] c = "field of study" -> rows[i]["Field of Study"]
              [] OTHER -> rows[i][c]]]

\* fault: the by= list without 'education institution'
SortBy_NoInstitution == <<"continent", "country", "region", "state", "field of study">>

\* the by= list of sort_values
SortBy == <<"continent", "country", "region", "state",
            "education institution", "field of study">>

\* r1 sorts strictly before r2 under the composite key
RECURSIVE KeyLess(_, _, _)
KeyLess(r1, r2, by) ==
    IF by = <<>> THEN FALSE
    ELSE IF r1[Head(by)] # r2[Head(by)]
         THEN StrLess(r1[Head(by)], r2[Head(by)])
         ELSE KeyLess(r1, r2, Tail(by))

\* df.sort_values(by=[...]): ascending, multi-key lexsort, ties keep their order
SortValues(rows) ==
    LET Insert(sorted, r) ==
            LET pos == Cardinality({i \in DOMAIN sorted : ~KeyLess(r, sorted[i], SortBy)})
            IN SubSeq(sorted, 1, pos) \o <<r>> \o SubSeq(sorted, pos + 1, Len(sorted))
        F[i \in 0..Len(rows)] ==
            IF i = 0 THEN <<>> ELSE Insert(F[i - 1], rows[i])
    IN F[Len(rows)]

\* the body of the try block of clean_sort_create_columns, up to the fill
CleanRows(rows) == FillNa(RemoveTotals(DropDuplicates(rows)))

\* df['Country Name'] etc. raise KeyError when the column is absent
TransformRaises(t) == ~(RequiredColumns \subseteq t.columns)

\* the value returned by clean_sort_create_columns when nothing raises
CleanTable(t) ==
    [columns |-> t.columns \cup DerivedColumns,
     rows |-> SortValues(CreateColumns(CleanRows(t.rows)))]

AnnotatorIdle ==
    /\ file_path = NoFile
    /\ apc = "idle"
    /\ adf = NoTable
    /\ index = 0
    /\ suggestions = <<>>
    /\ unprocessed_rows = <<>>
    /\ handled = <<>>
    /\ http_log = <<>>
    /\ slept = 0
    /\ processed_df = NoTable
    /\ processed_xlsx = NoFile
    /\ unprocessed_df = NoTable
    /\ unprocessed_xlsx = NoFile

CleanerInit ==
    /\ excel_file \in {NoFile} \cup {<<t>> : t \in InputTables}
    /\ pc = "load"
    /\ df = NoTable
    /\ cleaned_df = NoTable
    /\ output_xlsx = NoFile
    /\ log = <<>>
    /\ AnnotatorIdle

\* pd.read_excel(excel_file) succeeds
CleanerLoadOk ==
    /\ pc = "load"
    /\ excel_file # NoFile
    /\ df' = excel_file[1]
    /\ log' = Append(log, Info("Excel file loaded successfully."))
    /\ pc' = "transform"
    /\ UNCHANGED <<excel_file, cleaned_df, output_xlsx, avars>>

\* pd.read_excel(excel_file) raises: logged, exit()
CleanerLoadFail ==
    /\ pc = "load"
    /\ excel_file = NoFile
    /\ log' = Append(log, Error("Error loading Excel file"))
    /\ pc' = "exited"
    /\ UNCHANGED <<excel_file, df, cleaned_df, output_xlsx, avars>>

\* fault: the except block logs but does not exit, the script goes on to save
clean_sort_create_columns_NoExit ==
    /\ pc = "transform"
    /\ df' = [df EXCEPT !.rows = DropDuplicates(df.rows)]
    /\ IF TransformRaises(df)
       THEN /\ log' = log \o <<Info("Duplicates removed."),
                               Info("Rows with totals removed."),
                               Info("Missing values filled with 'Unknown'."),
                               Error("Error during data cleaning and sorting")>>
            /\ UNCHANGED cleaned_df
       ELSE /\ log' = log \o <<Info("Duplicates removed."),
                               Info("Rows with totals removed."),
                               Info("Missing values filled with 'Unknown'."),
                               Info("New columns created."),
                               Info("Data sorted.")>>
            /\ cleaned_df' = CleanTable(df)
    /\ pc' = "save"
    /\ UNCHANGED <<excel_file, output_xlsx, avars>>

\* cleaned_df = clean_sort_create_columns(df); drop_duplicates(inplace=True)
\* also changes the module-level df, which is the same object
clean_sort_create_columns ==
    /\ pc = "transform"
    /\ df' = [df EXCEPT !.rows = DropDuplicates(df.rows)]
    /\ IF TransformRaises(df)
       THEN /\ log' = log \o <<Info("Duplicates removed."),
                               Info("Rows with totals removed."),
                               Info("Missing values filled with 'Unknown'."),
                               Error("Error during data cleaning and sorting")>>
            /\ pc' = "exited"
            /\ UNCHANGED cleaned_df
       ELSE /\ log' = log \o <<Info("Duplicates removed."),
                               Info("Rows with totals removed."),
                               Info("Missing values filled with 'Unknown'."),
                               Info("New columns created."),
                               Info("Data sorted.")>>
            /\ cleaned_df' = CleanTable(df)
            /\ pc' = "save"
    /\ UNCHANGED <<excel_file, output_xlsx, avars>>

\* cleaned_df.to_excel(output_file, index=False) succeeds
CleanerSaveOk ==
    /\ pc = "save"
    /\ output_xlsx' = <<cleaned_df>>
    /\ log' = Append(log, Info("Data cleaned, sorted, and new columns created successfully."))
    /\ pc' = "done"
    /\ UNCHANGED <<excel_file, df, cleaned_df, avars>>

\* cleaned_df.to_excel raises: logged, exit()
CleanerSaveFail ==
    /\ pc = "save"
    /\ log' = Append(log, Error("Error saving Excel file"))
    /\ pc' = "exited"
    /\ UNCHANGED <<excel_file, df, cleaned_df, output_xlsx, avars>>

CleanerNext ==
    \/ CleanerLoadOk
    \/ CleanerLoadFail
    \/ clean_sort_create_columns
    \/ CleanerSaveOk
    \/ CleanerSaveFail

CleanerSpec == CleanerInit /\ [][CleanerNext]_vars
----------------------------------------------------------------------------
(* Annotator: address_geocode_script.py *)

AnnotatorColumns == {"Education Institute", "Country Name"}

AnnotatorRows ==
    { [c \in AnnotatorColumns |-> IF c = "Education Institute" THEN i ELSE n] :
        i \in {s_Z, s_a}, n \in {s_A, s_B} }

AnnotatorTables ==
    { [columns |-> AnnotatorColumns, rows |-> rs] :
        rs \in SeqsUpTo(AnnotatorRows, MaxAnnotatorRows) }

\* JSON objects are functions from a set of keys; dict.get(k, default)
EmptyDict == [k \in {} |-> 0]
Get(d, k, default) == IF k \in DOMAIN d THEN d[k] ELSE default

Feature(a) == "properties" :> ("formatted" :> a)

ResponseBodies ==
    { EmptyDict,
      "features" :> <<>>,
      "features" :> <<Feature("addr1")>>,
      "features" :> <<Feature("addr1"), Feature("addr2")>>,
      "features" :> <<Feature("addr2"), Feature("addr1")>>,
      "features" :> <<EmptyDict, Feature("addr1")>>,
      "features" :> <<"properties" :> EmptyDict>> }

\* what the HTTP exchange of one call can produce:
\*   ConnectionError  requests.get raises (a RequestException)
\*   HTTPError        raise_for_status raises (a RequestException)
\*   not_object       response.json() is not a JSON object: .get raises AttributeError
\*   ok               response.json() is the object body
Outcomes ==
    { [kind |-> "ConnectionError", body |-> EmptyDict, exc |-> "connection refused"],
      [kind |-> "HTTPError", body |-> EmptyDict, exc |-> "401 Client Error"],
      [kind |-> "not_object", body |-> EmptyDict, exc |-> "no attribute 'get'"] }
    \cup { [kind |-> "ok", body |-> b, exc |-> ""] : b \in ResponseBodies }

\* fault: the last candidate is taken instead of the first
get_address_suggestions_LastFeature(o) ==
    IF o.kind \in {"ConnectionError", "HTTPError"}
    THEN <<"Request error: ", o.exc>>
    ELSE IF o.kind # "ok"
    THEN <<"Error: ", o.exc>>
    ELSE LET features == Get(o.body, "features", <<>>)
         IN IF features # <<>>
            THEN <<Get(Get(features[Len(features)], "properties", EmptyDict),
                       "formatted", "No suggestion")>>
            ELSE <<"No suggestion">>

\* the returned str, as the fragments an f-string joins
get_address_suggestions(o) ==
    IF o.kind \in {"ConnectionError", "HTTPError"}
    THEN <<"Request error: ", o.exc>>
    ELSE IF o.kind # "ok"
    THEN <<"Error: ", o.exc>>
    ELSE LET features == Get(o.body, "features", <<>>)
         IN IF features # <<>>
            THEN <<Get(Get(features[1], "properties", EmptyDict),
                       "formatted", "No suggestion")>>
            ELSE <<"No suggestion">>

\* the except blocks log an error
LookupLog(o) ==
    IF o.kind = "ok" THEN <<>> ELSE <<Error("lookup failed")>>

\* if index >= LoopLimit: the row is not looked up
LoopLimit == 1
\* df.iloc[:HeadCount]
HeadCount == 1
\* time.sleep(SleepSeconds)
SleepSeconds == 1

Address(row) ==
    Str(row["Education Institute"]) \o s_CommaSpace \o Str(row["Country Name"])

Min(a, b) == IF a < b THEN a ELSE b

CleanerIdle ==
    /\ excel_file = NoFile
    /\ pc = "idle"
    /\ df = NoTable
    /\ cleaned_df = NoTable
    /\ output_xlsx = NoFile

AnnotatorInit ==
    /\ file_path \in {NoFile} \cup {<<t>> : t \in AnnotatorTables}
    /\ apc = "load"
    /\ adf = NoTable
    /\ index = 0
    /\ suggestions = <<>>
    /\ unprocessed_rows = <<>>
    /\ handled = <<>>
    /\ http_log = <<>>
    /\ slept = 0
    /\ processed_df = NoTable
    /\ processed_xlsx = NoFile
    /\ unprocessed_df = NoTable
    /\ unprocessed_xlsx = NoFile
    /\ log = <<>>
    /\ CleanerIdle

\* pd.read_excel(file_path) succeeds
AnnotatorLoadOk ==
    /\ apc = "load"
    /\ file_path # NoFile
    /\ adf' = file_path[1]
    /\ log' = log \o <<Info("Loading Excel file"), Info("Excel file loaded successfully."),
                       Info("Starting address autocomplete suggestions...")>>
    /\ apc' = "loop"
    /\ UNCHANGED <<file_path, index, suggestions, unprocessed_rows, handled, http_log,
                   slept, processed_df, processed_xlsx, unprocessed_df,
                   unprocessed_xlsx, cvars>>

\* pd.read_excel(file_path) raises: logged, exit()
AnnotatorLoadFail ==
    /\ apc = "load"
    /\ file_path = NoFile
    /\ log' = log \o <<Info("Loading Excel file"), Error("Error loading Excel file")>>
    /\ apc' = "exited"
    /\ UNCHANGED <<file_path, adf, index, suggestions, unprocessed_rows, handled,
                   http_log, slept, processed_df, processed_xlsx, unprocessed_df,
                   unprocessed_xlsx, cvars>>

\* fault: the skipped row is not appended to unprocessed_rows
LoopSkip_NoAppend ==
    /\ apc = "loop"
    /\ index < Len(adf.rows)
    /\ index >= LoopLimit
    /\ handled' = Append(handled, <<index, "skip">>)
    /\ index' = index + 1
    /\ UNCHANGED <<file_path, apc, adf, suggestions, unprocessed_rows, http_log, slept,
                   processed_df, processed_xlsx, unprocessed_df, unprocessed_xlsx,
                   log, cvars>>

\* loop body for index >= LoopLimit: append the row, continue
LoopSkip ==
    /\ apc = "loop"
    /\ index < Len(adf.rows)
    /\ index >= LoopLimit
    /\ unprocessed_rows' = Append(unprocessed_rows, adf.rows[index + 1])
    /\ handled' = Append(handled, <<index, "skip">>)
    /\ index' = index + 1
    /\ UNCHANGED <<file_path, apc, adf, suggestions, http_log, slept, processed_df,
                   processed_xlsx, unprocessed_df, unprocessed_xlsx, log, cvars>>

\* fault: the pause is taken only after a lookup that did not fail
LoopLookup_NoPauseOnError ==
    /\ apc = "loop"
    /\ index < Len(adf.rows)
    /\ ~(index >= LoopLimit)
    /\ \E o \in Outcomes :
          /\ http_log' = Append(http_log, [address |-> Address(adf.rows[index + 1]),
                                           outcome |-> o])
          /\ suggestions' = Append(suggestions, get_address_suggestions(o))
          /\ log' = log \o LookupLog(o) \o <<Info("Processed addresses.")>>
          /\ IF o.kind = "ok"
             THEN apc' = "sleep" /\ UNCHANGED index
             ELSE apc' = "loop" /\ index' = index + 1
    /\ handled' = Append(handled, <<index, "lookup">>)
    /\ UNCHANGED <<file_path, adf, unprocessed_rows, slept, processed_df,
                   processed_xlsx, unprocessed_df, unprocessed_xlsx, cvars>>

\* loop body otherwise, up to the pause: build the address, look it up,
\* append the suggestion
LoopLookup ==
    /\ apc = "loop"
    /\ index < Len(adf.rows)
    /\ ~(index >= LoopLimit)
    /\ \E o \in Outcomes :
          /\ http_log' = Append(http_log, [address |-> Address(adf.rows[index + 1]),
                                           outcome |-> o])
          /\ suggestions' = Append(suggestions, get_address_suggestions(o))
          /\ log' = log \o LookupLog(o) \o <<Info("Processed addresses.")>>
    /\ handled' = Append(handled, <<index, "lookup">>)
    /\ apc' = "sleep"
    /\ UNCHANGED <<file_path, adf, index, unprocessed_rows, slept, processed_df,
                   processed_xlsx, unprocessed_df, unprocessed_xlsx, cvars>>

\* time.sleep(1), then the next iteration
LoopSleep ==
    /\ apc = "sleep"
    /\ slept' = slept + SleepSeconds
    /\ index' = index + 1
    /\ apc' = "loop"
    /\ UNCHANGED <<file_path, adf, suggestions, unprocessed_rows, handled, http_log,
                   processed_df, processed_xlsx, unprocessed_df, unprocessed_xlsx,
                   log, cvars>>

\* processed_df = df.iloc[:1].copy(); processed_df['Address Suggestions'] = suggestions
\* (a length mismatch raises ValueError, which nothing catches)
BuildProcessed ==
    /\ apc = "loop"
    /\ index = Len(adf.rows)
    /\ LET head == SubSeq(adf.rows, 1, Min(HeadCount, Len(adf.rows)))
       IN IF Len(suggestions) = Len(head)
          THEN /\ processed_df' =
                     [columns |-> adf.columns \cup {"Address Suggestions"},
                      rows |-> [i \in DOMAIN head |->
                                   [c \in adf.columns \cup {"Address Suggestions"} |->
                                       IF c = "Address Suggestions"
                                       THEN suggestions[i] ELSE head[i][c]]]]
               /\ apc' = "save_processed"
          ELSE /\ apc' = "crashed"
               /\ UNCHANGED processed_df
    /\ UNCHANGED <<file_path, adf, index, suggestions, unprocessed_rows, handled,
                   http_log, slept, processed_xlsx, unprocessed_df, unprocessed_xlsx,
                   log, cvars>>

\* processed_df.to_excel(...) succeeds
SaveProcessedOk ==
    /\ apc = "save_processed"
    /\ processed_xlsx' = <<processed_df>>
    /\ log' = log \o <<Info("Saving file with address suggestions"),
                       Info("The new file with address suggestions has been saved")>>
    /\ apc' = "save_unprocessed"
    /\ UNCHANGED <<file_path, adf, index, suggestions, unprocessed_rows, handled,
                   http_log, slept, processed_df, unprocessed_df, unprocessed_xlsx,
                   cvars>>

\* fault: a failed save of the processed file ends the script
SaveProcessedFail_Exit ==
    /\ apc = "save_processed"
    /\ log' = log \o <<Info("Saving file with address suggestions"),
                       Error("Error saving Excel file")>>
    /\ apc' = "exited"
    /\ UNCHANGED <<file_path, adf, index, suggestions, unprocessed_rows, handled,
                   http_log, slept, processed_df, processed_xlsx, unprocessed_df,
                   unprocessed_xlsx, cvars>>

\* processed_df.to_excel(...) raises: logged, the script goes on
SaveProcessedFail ==
    /\ apc = "save_processed"
    /\ log' = log \o <<Info("Saving file with address suggestions"),
                       Error("Error saving Excel file")>>
    /\ apc' = "save_unprocessed"
    /\ UNCHANGED <<file_path, adf, index, suggestions, unprocessed_rows, handled,
                   http_log, slept, processed_df, processed_xlsx, unprocessed_df,
                   unprocessed_xlsx, cvars>>

\* pd.DataFrame(unprocessed_rows): an empty list gives a frame without columns
UnprocessedFrame ==
    [columns |-> IF unprocessed_rows = <<>> THEN {} ELSE adf.columns,
     rows |-> unprocessed_rows]

\* unprocessed_df = pd.DataFrame(unprocessed_rows); unprocessed_df.to_excel(...) succeeds
SaveUnprocessedOk ==
    /\ apc = "save_unprocessed"
    /\ unprocessed_df' = UnprocessedFrame
    /\ unprocessed_xlsx' = <<UnprocessedFrame>>
    /\ log' = log \o <<Info("Saving unprocessed rows"),
                       Info("The unprocessed rows have been saved")>>
    /\ apc' = "done"
    /\ UNCHANGED <<file_path, adf, index, suggestions, unprocessed_rows, handled,
                   http_log, slept, processed_df, processed_xlsx, cvars>>

\* unprocessed_df.to_excel(...) raises: logged, end of script
SaveUnprocessedFail ==
    /\ apc = "save_unprocessed"
    /\ unprocessed_df' = UnprocessedFrame
    /\ log' = log \o <<Info("Saving unprocessed rows"),
                       Error("Error saving unprocessed rows")>>
    /\ apc' = "done"
    /\ UNCHANGED <<file_path, adf, index, suggestions, unprocessed_rows, handled,
                   http_log, slept, processed_df, processed_xlsx, unprocessed_xlsx,
                   cvars>>

AnnotatorNext ==
    \/ AnnotatorLoadOk
    \/ AnnotatorLoadFail
    \/ LoopSkip
    \/ LoopLookup
    \/ LoopSleep
    \/ BuildProcessed
    \/ SaveProcessedOk
    \/ SaveProcessedFail
    \/ SaveUnprocessedOk
    \/ SaveUnprocessedFail

AnnotatorSpec == AnnotatorInit /\ [][AnnotatorNext]_vars
----------------------------------------------------------------------------
(* Properties of the Cleaner, checked under CleanerSpec *)

CleanerTransformed == pc \in {"save", "done"}

\* o is the input row r with its blank cells replaced by the placeholder
Represents(o, r) ==
    \A c \in DOMAIN r : o[c] = (IF r[c] = NaN THEN s_Unknown ELSE r[c])

\* the input row has the substring 'Total' in some field
InputRowHasTotal(r) == \E c \in DOMAIN r : r[c] # NaN /\ Contains(r[c], s_Total)

SurvivingInputRows ==
    { excel_file[1].rows[i] : i \in { j \in DOMAIN excel_file[1].rows :
                                       ~InputRowHasTotal(excel_file[1].rows[j]) } }

SixKeys(r) == <<r["continent"], r["country"], r["region"], r["state"],
                r["education institution"], r["field of study"]>>

TupleLeq(a, b) ==
    \/ a = b
    \/ \E k \in DOMAIN a : /\ \A j \in 1..(k - 1) : a[j] = b[j]
                           /\ StrLess(a[k], b[k])

\* C3: no two rows of the Cleaner output are equal
C3_NoEqualOutputRows ==
    CleanerTransformed =>
        \A i, j \in DOMAIN cleaned_df.rows :
            i # j => cleaned_df.rows[i] # cleaned_df.rows[j]

\* C4: applying clean_sort_create_columns to its own output returns a Table
\* identical to that output
C4_Idempotent ==
    CleanerTransformed => CleanTable(cleaned_df) = cleaned_df

LogHas(entry) == \E i \in DOMAIN log : log[i] = entry
LogHasError == \E i \in DOMAIN log : log[i][1] = "ERROR"

\* C6: a failed load or transform ends the run at once with no output file;
\* an output file exists only after load and transform both succeeded
C6_NoOutputAfterFailure ==
    /\ output_xlsx # NoFile =>
          /\ excel_file # NoFile
          /\ RequiredColumns \subseteq excel_file[1].columns
          /\ LogHas(Info("Excel file loaded successfully."))
          /\ LogHas(Info("Data sorted."))
          /\ ~LogHasError
          /\ pc = "done"
          /\ output_xlsx = <<cleaned_df>>
    /\ (pc # "load" /\ excel_file = NoFile) =>
          pc = "exited" /\ output_xlsx = NoFile /\ LogHasError
    /\ (pc \notin {"load", "transform"} /\ excel_file # NoFile
          /\ ~(RequiredColumns \subseteq excel_file[1].columns)) =>
          pc = "exited" /\ output_xlsx = NoFile /\ LogHasError
    /\ pc = "exited" => ~ENABLED CleanerNext

C6_Witness ==
    /\ pc = "exited"
    /\ excel_file # NoFile
    /\ Len(excel_file[1].rows) >= 1
    /\ "Region" \notin excel_file[1].columns
    /\ LogHas(Error("Error during data cleaning and sorting"))
    /\ output_xlsx = NoFile

\* C9: every blank cell of a surviving input row is the placeholder in the
\* output, and no output cell, original or derived, is blank
C9_BlanksFilled ==
    CleanerTransformed =>
        /\ \A r \in SurvivingInputRows : \A c \in DOMAIN r :
              r[c] = NaN =>
                 \E i \in DOMAIN cleaned_df.rows :
                    /\ Represents(cleaned_df.rows[i], r)
                    /\ cleaned_df.rows[i][c] = s_Unknown
        /\ \A i \in DOMAIN cleaned_df.rows : \A c \in DOMAIN cleaned_df.rows[i] :
              cleaned_df.rows[i][c] # NaN
        /\ \A i \in DOMAIN cleaned_df.rows :
              DOMAIN cleaned_df.rows[i] = SourceColumns \cup DerivedColumns

C9_Witness ==
    /\ pc = "done"
    /\ Len(output_xlsx[1].rows) >= 2
    /\ \E r \in SurvivingInputRows :
          r["Region"] = NaN /\ r["Field of Study"] = NaN
    /\ \E r \in SurvivingInputRows : r["Country Name"] = NaN

\* C10: no output row has the substring 'Total' in any field, every input
\* row without it is represented in the output, and only duplicates and
\* 'Total' rows are dropped
C10_TotalsRemoved ==
    CleanerTransformed =>
        /\ \A i \in DOMAIN cleaned_df.rows : \A c \in DOMAIN cleaned_df.rows[i] :
              ~Contains(cleaned_df.rows[i][c], s_Total)
        /\ \A r \in SurvivingInputRows :
              \E i \in DOMAIN cleaned_df.rows : Represents(cleaned_df.rows[i], r)
        /\ Len(cleaned_df.rows) = Cardinality(SurvivingInputRows)

C10_Witness ==
    /\ pc = "done"
    /\ \E i \in DOMAIN excel_file[1].rows :
          excel_file[1].rows[i]["Students"] = s_GrandTotal
    /\ \E i \in DOMAIN excel_file[1].rows :
          excel_file[1].rows[i]["Region"] = s_Total
    /\ \E i \in DOMAIN output_xlsx[1].rows :
          output_xlsx[1].rows[i]["Field of Study"] = s_total

----------------------------------------------------------------------------
(* Properties of the Annotator, checked under AnnotatorSpec *)

HasFormatted(f) ==
    "properties" \in DOMAIN f /\ "formatted" \in DOMAIN f["properties"]

HasFeatures(b) == "features" \in DOMAIN b /\ b["features"] # <<>>

\* C1: the processed output is row 0 plus the new column, the unprocessed
\* output is the other N-1 rows, and together they are the original rows
C1_SplitExact ==
    (apc = "done" /\ Len(adf.rows) >= 1) =>
        /\ adf = file_path[1]
        /\ Len(processed_df.rows) = 1
        /\ DOMAIN processed_df.rows[1] = adf.columns \cup {"Address Suggestions"}
        /\ processed_df.rows[1]["Address Suggestions"] = suggestions[1]
        /\ Len(unprocessed_df.rows) = Len(adf.rows) - 1
        /\ <<Restrict(processed_df.rows[1], adf.columns)>> \o unprocessed_df.rows
              = file_path[1].rows
        /\ processed_xlsx \in {NoFile, <<processed_df>>}
        /\ unprocessed_xlsx \in {NoFile, <<unprocessed_df>>}

C1_Witness ==
    /\ apc = "done"
    /\ Len(file_path[1].rows) = 3
    /\ file_path[1].rows[1] = file_path[1].rows[3]
    /\ file_path[1].rows[1] # file_path[1].rows[2]
    /\ processed_xlsx # NoFile
    /\ unprocessed_xlsx # NoFile
    /\ Len(processed_xlsx[1].rows) = 1
    /\ Len(unprocessed_xlsx[1].rows) = 2

IsFailure(o) == o.kind # "ok"

\* C7: a failed lookup becomes an error string and the loop goes on over
\* all Records; a failed save of the processed file does not stop the save
\* of the unprocessed rows
C7_FailuresDoNotAbort ==
    /\ apc # "crashed"
    /\ apc = "exited" => file_path = NoFile
    /\ apc \in {"save_processed", "save_unprocessed", "done"} =>
          /\ Len(handled) = Len(file_path[1].rows)
          /\ Len(unprocessed_rows) = Len(file_path[1].rows) - Len(suggestions)
          /\ \A i \in DOMAIN http_log :
                IsFailure(http_log[i].outcome) =>
                    /\ i \in DOMAIN suggestions
                    /\ suggestions[i][1] \in {"Request error: ", "Error: "}
    /\ apc = "save_unprocessed" => ENABLED (SaveUnprocessedOk \/ SaveUnprocessedFail)
    /\ apc = "done" => LogHas(Info("Saving unprocessed rows"))

C7_Witness ==
    /\ apc = "done"
    /\ Len(file_path[1].rows) = 3
    /\ http_log[1].outcome.kind = "ConnectionError"
    /\ LogHas(Error("Error saving Excel file"))
    /\ processed_xlsx = NoFile
    /\ unprocessed_xlsx # NoFile
    /\ Len(unprocessed_xlsx[1].rows) = 2

Lookups == { i \in DOMAIN handled : handled[i][2] = "lookup" }

\* C8: every lookup is followed by exactly one 1-unit pause before the next
\* Record is handled, whatever it returned; no Record is looked up twice;
\* Records are handled in file order
C8_PauseAfterLookup ==
    /\ \A i \in DOMAIN handled : handled[i][1] = i - 1
    /\ Cardinality(Lookups) = Len(http_log)
    /\ \A k \in DOMAIN http_log :
          \E i \in Lookups : http_log[k].address = Address(adf.rows[handled[i][1] + 1])
    /\ apc = "sleep" =>
          /\ handled[Len(handled)] = <<index, "lookup">>
          /\ slept = Len(http_log) - 1
    /\ apc # "sleep" =>
          /\ slept = Len(http_log)
          /\ apc \in {"loop", "save_processed", "save_unprocessed", "done"} =>
                Len(handled) = index

C8_Witness ==
    /\ apc = "loop"
    /\ index = 2
    /\ slept = 1
    /\ http_log[1].outcome.kind = "HTTPError"
    /\ handled = << <<0, "lookup">>, <<1, "skip">> >>
====
